---- MODULE Spec2Model ----
(***************************************************************************)
(* RFID-triggered music: the two scan listeners (rfid_listener.py with its *)
(* debounce timer thread, rfid_listener_enhanced.py with its device/stdin  *)
(* strategies), the playback host (macos_playback_host.py) and the mapping *)
(* service (app.py).  Time is counted in half seconds.  Strings are        *)
(* sequences of one-character strings.                                     *)
(***************************************************************************)
EXTENDS Integers, Sequences, FiniteSets, TLC

\* ------------------------------------------------------------ configuration
\* ticks of the clock in one second
Second == 2
\* SCAN_TIMEOUT = 2.0 seconds
SCAN_TIMEOUT == 2 * Second
\* the literal 1.0 of the duplicate check
DEDUP_WINDOW == 1 * Second
MIN_RFID_LENGTH == 6
MAX_RFID_LENGTH == 20
\* time.sleep(1) of the read loop's error handler
ERROR_SLEEP == 1 * Second

\* ------------------------------------------------------------------- bounds
\* the clock stops advancing here
MaxTime == 8
\* longest core of a candidate handed straight to process_scan
MaxCandLen == 21

\* the clock at start-up: time.time() is far beyond the duplicate window
StartTime == DEDUP_WINDOW

\* --------------------------------------------------------------- characters
Digits == {"0", "1", "2", "3", "4", "5", "6", "7", "8", "9"}
Lower == {"a", "b", "c", "d", "e", "f", "g", "h", "i", "j", "k", "l", "m",
          "n", "o", "p", "q", "r", "s", "t", "u", "v", "w", "x", "y", "z"}
Upper == {"A", "B", "C", "D", "E", "F", "G", "H", "I", "J", "K", "L", "M",
          "N", "O", "P", "Q", "R", "S", "T", "U", "V", "W", "X", "Y", "Z"}
\* str.isalnum() on one character
AlNum == Digits \cup Lower \cup Upper
\* what str.strip() removes
Whitespace == {" ", "\t", "\n", "\r"}

None == "None"
\* self.scan_timer = NoTimer; Timer ids start at 1
NoTimer == 0

\* str.isalnum(): every character alphanumeric and at least one character
isalnum(s) == s # <<>> /\ \A i \in 1..Len(s) : s[i] \in AlNum

\* str.replace(' ', '')
RemoveSpaces(s) == SelectSeq(s, LAMBDA c : c # " ")

RECURSIVE lstrip(_)
lstrip(s) == IF s # <<>> /\ Head(s) \in Whitespace THEN lstrip(Tail(s)) ELSE s

RECURSIVE rstrip(_)
rstrip(s) == IF s # <<>> /\ s[Len(s)] \in Whitespace
             THEN rstrip(SubSeq(s, 1, Len(s) - 1)) ELSE s

\* str.strip()
strip(s) == rstrip(lstrip(s))

\* is_valid_rfid without the upper length check
is_valid_rfid_no_max(rfid) ==
    IF rfid = <<>> THEN FALSE
    ELSE IF Len(rfid) < MIN_RFID_LENGTH THEN FALSE
    ELSE IF ~ isalnum(RemoveSpaces(rfid)) THEN FALSE
    ELSE TRUE

\* RFIDListener.is_valid_rfid: three early returns
is_valid_rfid(rfid) ==
    IF rfid = <<>> THEN FALSE
    ELSE IF Len(rfid) < MIN_RFID_LENGTH \/ Len(rfid) > MAX_RFID_LENGTH THEN FALSE
    ELSE IF ~ isalnum(RemoveSpaces(rfid)) THEN FALSE
    ELSE TRUE

\* EnhancedRFIDListener.is_valid_rfid
enhanced_is_valid_rfid(rfid) ==
    IF rfid = <<>> \/ Len(rfid) < MIN_RFID_LENGTH \/ Len(rfid) > MAX_RFID_LENGTH
    THEN FALSE
    ELSE isalnum(RemoveSpaces(rfid))

\* ------------------------------------------------------------------- state
VARIABLES
    prog,            \* which program runs: a listener, a harness, a server
    now,             \* time.time(), in ticks
    src,             \* what the source still holds of the scan being typed
    tape,            \* the scans the reader will still produce, in order
    running,         \* self.running
    last_scan_time,  \* self.last_scan_time
    scan_buffer,     \* self.scan_buffer (basic), local scan_buffer (enhanced)
    scan_timer,      \* self.scan_timer: None or the id of a Timer
    th,              \* threads: 0 is the read loop, i > 0 is Timer i
    char,            \* read loop: the character read
    tmp,             \* read loop: scan_buffer as loaded by "+="
    wake,            \* read loop: end of time.sleep(1)
    calls,           \* history: the process_scan calls
    accepted,        \* history: the identifiers accepted (line 58 / 230)
    posts,           \* history: the requests.post calls, with the time each ended
    cycle,           \* history: number of accumulation cycles started
    lastChar,        \* history: time the last character was appended
    registry,        \* /proc/bus/input/devices, as find_rfid_device meets it
    by_id,           \* /dev/input/by-id, as find_rfid_device meets it
    layers,          \* history: the layers find_rfid_device went through
    device_path,     \* self.device_path
    probe,           \* history: how test_device_input ended, "notrun" before
    strategy,        \* history: the read function entered, "none" before
    dev,             \* the device path's listener, run beside the stdin path's
    cand,            \* the string handed straight to process_scan
    fed,             \* history: what the read loop has read so far
    health,          \* main: how the last GET /health ended, "unchecked" before
    eof,             \* the source is gone: stdin closed, or the reader unplugged
    current_process, \* playback host: player.current_process, None or an mpv process
    is_playing,      \* playback host: player.is_playing
    procs,           \* playback host: the mpv processes started so far
    handlers,        \* playback host: the threads serving /play and /stop
    players,         \* playback host: the run_mpv threads
    rfid_map,        \* mapping service: the rows of table rfid_map
    reqs             \* mapping service: the threads serving requests

\* the enhanced listener's own state, and the harnesses'
enh == <<registry, by_id, layers, device_path, probe, strategy, dev, cand, fed>>

\* the playback host's state, and the mapping service's
host == <<current_process, is_playing, procs, handlers, players>>
svc == <<rfid_map, reqs>>

\* the listeners' state
listener == <<now, src, tape, running, last_scan_time, scan_buffer,
              scan_timer, th, char, tmp, wake, calls, accepted, posts, cycle,
              lastChar, enh, health, eof>>

vars == <<prog, listener, host, svc>>

\* player = MusicPlayer() before any request: no process, not playing
NoHost ==
    /\ current_process = 0
    /\ is_playing = FALSE
    /\ procs = <<>>
    /\ handlers = <<>>
    /\ players = <<>>

\* the mapping service out of the picture
NoService ==
    /\ rfid_map = {}
    /\ reqs = <<>>

\* what a POST can come to: status 200, another status, a RequestException
Outcomes == {"200", "non200", "error"}

\* one thread's frame: position, process_scan's argument, its caller's next
\* position, current_time, the acceptance it made, and a Timer's deadline
Frame(pc) == [pc |-> pc, arg |-> <<>>, ret |-> "", ct |-> 0, acc |-> 0,
              deadline |-> 0]

MAIN == 0
Timers == DOMAIN th \ {MAIN}

\* the scans of the keyboard-emulating reader, as stdin receives them
Str6 == <<"1", "2", "3", "4", "5", "6">>
StdinScans == { Str6 \o <<"\n">>, Str6, <<"a", "b", "\r">>, <<"\n">> }

\* what one run reads: one scan, or two in a row
StdinTapes == { <<x>> : x \in StdinScans } \cup (StdinScans \X StdinScans)

\* ------------------------------------------------- rfid_listener.py: state
InitBasic ==
    /\ prog = "basic"
    /\ now = StartTime
    /\ src = <<>>
    /\ tape \in StdinTapes
    /\ running = FALSE
    /\ last_scan_time = 0
    /\ scan_buffer = <<>>
    /\ scan_timer = NoTimer
    /\ th = (MAIN :> Frame("main"))
    /\ char = ""
    /\ tmp = <<>>
    /\ wake = 0
    /\ calls = <<>>
    /\ accepted = <<>>
    /\ posts = <<>>
    /\ cycle = 0
    /\ lastChar = 0
    /\ registry = "unused"
    /\ by_id = "unused"
    /\ layers = <<>>
    /\ device_path = None
    /\ probe = "notrun"
    /\ strategy = "none"
    /\ dev = <<>>
    /\ cand = <<>>
    /\ fed = <<>>
    /\ health = "unchecked"
    /\ eof = FALSE
    /\ NoHost
    /\ NoService

Goto(t, p) == th' = [th EXCEPT ![t].pc = p]

\* return from process_scan to the caller's next position: the locals are gone
Return(t) == th' = [th EXCEPT ![t] = [Frame(th[t].ret) EXCEPT !.deadline = th[t].deadline]]

\* Timer.cancel(): sets the finished event; only a Timer still waiting is stopped
cancel(f, i) == IF f[i].pc = "pending" THEN [f EXCEPT ![i] = Frame("cancelled")] ELSE f

\* the except Exception clause of the read loop: log, time.sleep(1), next iteration
RaiseInLoop ==
    /\ th' = [th EXCEPT ![MAIN].pc = "exc"]
    /\ wake' = now + ERROR_SLEEP

\* ------------------------------------------------ check_flask_app and main
\* check_flask_app accepting every response, whatever its status
check_flask_app_any_status(o) == o # "error"

\* check_flask_app: status 200 is True; another status or an exception is False
check_flask_app(o) == o = "200"

\* main, the head of the while loop: one GET /health
main_check ==
    /\ prog \in {"basic", "enhanced"}
    /\ th[MAIN].pc = "main"
    /\ \E o \in Outcomes :
         /\ health' = o
         /\ IF check_flask_app(o) THEN Goto(MAIN, "start") ELSE Goto(MAIN, "main_sleep")
    /\ UNCHANGED <<enh, prog, host, svc, eof, now, src, tape, running, last_scan_time,
                   scan_buffer, scan_timer, char, tmp, wake, calls, accepted, posts,
                   cycle, lastChar>>

\* main, the body of the while loop: time.sleep(5), then the next check; the
\* listener's clock is only read once the listener exists
main_sleep ==
    /\ prog \in {"basic", "enhanced"}
    /\ th[MAIN].pc = "main_sleep"
    /\ Goto(MAIN, "main")
    /\ UNCHANGED <<enh, prog, host, svc, health, eof, now, src, tape, running, last_scan_time,
                   scan_buffer, scan_timer, char, tmp, wake, calls, accepted, posts,
                   cycle, lastChar>>

\* ------------------------------------------- RFIDListener.process_scan
\* ps_check with DedupState stamped before the shape check
ps_check_stamp_first(t) ==
    /\ prog \in {"basic", "validate"}
    /\ th[t].pc = "ps_check"
    /\ LET rfid == strip(th[t].arg) IN
       IF ~ is_valid_rfid(rfid)
       THEN Return(t) /\ last_scan_time' = now
       ELSE IF now - last_scan_time < DEDUP_WINDOW
       THEN Return(t) /\ UNCHANGED last_scan_time
       ELSE /\ th' = [th EXCEPT ![t].pc = "ps_accept", ![t].ct = now]
            /\ UNCHANGED last_scan_time
    /\ UNCHANGED <<enh, prog, host, svc, health, eof, now, src, tape, running, scan_buffer, scan_timer,
                   char, tmp, wake, calls, accepted, posts, cycle, lastChar>>

\* lines 45-56: strip, validate, read the clock, compare with last_scan_time
ps_check(t) ==
    /\ prog \in {"basic", "validate"}
    /\ th[t].pc = "ps_check"
    /\ LET rfid == strip(th[t].arg) IN
       IF ~ is_valid_rfid(rfid) THEN Return(t)
       ELSE IF now - last_scan_time < DEDUP_WINDOW THEN Return(t)
       ELSE th' = [th EXCEPT ![t].pc = "ps_accept", ![t].ct = now]
    /\ UNCHANGED <<enh, prog, host, svc, health, eof, now, src, tape, running, last_scan_time, scan_buffer,
                   scan_timer, char, tmp, wake, calls, accepted, posts, cycle,
                   lastChar>>

\* line 58
ps_accept(t) ==
    /\ prog \in {"basic", "validate"}
    /\ th[t].pc = "ps_accept"
    /\ last_scan_time' = th[t].ct
    /\ accepted' = Append(accepted, [rfid |-> strip(th[t].arg), t |-> th[t].ct])
    /\ th' = [th EXCEPT ![t].pc = "ps_post", ![t].acc = Len(accepted) + 1]
    /\ UNCHANGED <<enh, prog, host, svc, health, eof, now, src, tape, running, scan_buffer, scan_timer,
                   char, tmp, wake, calls, posts, cycle, lastChar>>

\* ps_post with a second request after a failed one
ps_post_retry(t) ==
    /\ prog \in {"basic", "validate"}
    /\ th[t].pc = "ps_post"
    /\ \E o \in Outcomes :
         LET p == [rfid |-> strip(th[t].arg), acc |-> th[t].acc, ok |-> (o = "200"),
                   t |-> now]
         IN  posts' = IF o = "200" THEN Append(posts, p)
                      ELSE Append(Append(posts, p), p)
    /\ Return(t)
    /\ UNCHANGED <<enh, prog, host, svc, health, eof, now, src, tape, running, last_scan_time, scan_buffer,
                   scan_timer, char, tmp, wake, calls, accepted, cycle, lastChar>>

\* lines 61-87: one requests.post; every outcome is logged and the call returns
ps_post(t) ==
    /\ prog \in {"basic", "validate"}
    /\ th[t].pc = "ps_post"
    /\ \E o \in Outcomes :
         posts' = Append(posts, [rfid |-> strip(th[t].arg), acc |-> th[t].acc,
                                 ok |-> (o = "200"), t |-> now])
    /\ Return(t)
    /\ UNCHANGED <<enh, prog, host, svc, health, eof, now, src, tape, running, last_scan_time, scan_buffer,
                   scan_timer, char, tmp, wake, calls, accepted, cycle, lastChar>>

\* the call itself: bind rfid_data and enter the function
Call(t, data, ret) ==
    /\ th' = [th EXCEPT ![t].pc = "ps_check", ![t].arg = data, ![t].ret = ret,
                        ![t].ct = 0, ![t].acc = 0]
    /\ calls' = Append(calls, [data |-> data, cycle |-> cycle])

\* ----------------------------------------- RFIDListener.start_listening
\* line 135
start_listening ==
    /\ prog = "basic"
    /\ th[MAIN].pc = "start"
    /\ running' = TRUE
    /\ Goto(MAIN, "read")
    /\ UNCHANGED <<enh, prog, host, svc, health, eof, now, src, tape, last_scan_time, scan_buffer,
                   scan_timer, char, tmp, wake, calls, accepted, posts, cycle,
                   lastChar>>

\* lines 141-146: sys.stdin.read(1) returns the next character of the scan being
\* typed, or the first one of a new scan
read_char ==
    /\ prog = "basic"
    /\ th[MAIN].pc = "read"
    /\ running
    /\ src # <<>> \/ tape # <<>>
    /\ LET s == IF src # <<>> THEN src ELSE Head(tape) IN
         /\ char' = Head(s)
         /\ src' = Tail(s)
         /\ tape' = IF src # <<>> THEN tape ELSE Tail(tape)
         /\ Goto(MAIN, IF Head(s) \in {"\n", "\r"} THEN "h_term" ELSE "h_load")
         /\ fed' = Append(fed, Head(s))
    /\ UNCHANGED <<prog, host, svc, health, eof, now, running, last_scan_time, scan_buffer, scan_timer,
                   tmp, wake, calls, accepted, posts, cycle, lastChar, registry, by_id, layers,
                   device_path, probe, strategy, dev, cand>>

\* lines 157-159: the sleep of the error handler is over
read_error_resume ==
    /\ prog = "basic"
    /\ th[MAIN].pc = "exc"
    /\ now >= wake
    /\ Goto(MAIN, "read")
    /\ wake' = 0
    /\ UNCHANGED <<enh, prog, host, svc, health, eof, now, src, tape, running, last_scan_time, scan_buffer,
                   scan_timer, char, tmp, calls, accepted, posts, cycle, lastChar>>

\* the terminal or pipe behind stdin is closed once all its input has been read
close_stdin ==
    /\ prog = "basic"
    /\ running
    /\ ~ eof
    /\ src = <<>> /\ tape = <<>>
    /\ eof' = TRUE
    /\ UNCHANGED <<enh, prog, host, svc, health, now, src, tape, running, last_scan_time,
                   scan_buffer, scan_timer, th, char, tmp, wake, calls, accepted,
                   posts, cycle, lastChar>>

\* lines 144-149: at end of file sys.stdin.read(1) returns '' and the loop sleeps
read_eof ==
    /\ prog = "basic"
    /\ th[MAIN].pc = "read"
    /\ running
    /\ eof
    /\ Goto(MAIN, "eof_sleep")
    /\ UNCHANGED <<enh, prog, host, svc, health, eof, now, src, tape, running, last_scan_time,
                   scan_buffer, scan_timer, char, tmp, wake, calls, accepted, posts,
                   cycle, lastChar>>

\* line 149: time.sleep(0.1) is over, next iteration of the while loop
eof_resume ==
    /\ prog = "basic"
    /\ th[MAIN].pc = "eof_sleep"
    /\ Goto(MAIN, "read")
    /\ UNCHANGED <<enh, prog, host, svc, health, eof, now, src, tape, running, last_scan_time,
                   scan_buffer, scan_timer, char, tmp, wake, calls, accepted, posts,
                   cycle, lastChar>>

\* lines 151-153 and 163: KeyboardInterrupt while the loop waits in read(1):
\* break, then the finally clause
interrupt ==
    /\ prog = "basic"
    /\ th[MAIN].pc = "read"
    /\ running
    /\ Goto(MAIN, "finally")
    /\ UNCHANGED <<enh, prog, host, svc, health, eof, now, src, tape, running, last_scan_time,
                   scan_buffer, scan_timer, char, tmp, wake, calls, accepted, posts,
                   cycle, lastChar>>

\* ------------------------------------------- RFIDListener.stop_listening
\* line 168
stop_running ==
    /\ prog = "basic"
    /\ th[MAIN].pc = "finally"
    /\ running' = FALSE
    /\ Goto(MAIN, "stop_timer")
    /\ UNCHANGED <<enh, prog, host, svc, health, eof, now, src, tape, last_scan_time,
                   scan_buffer, scan_timer, char, tmp, wake, calls, accepted, posts,
                   cycle, lastChar>>

\* lines 169-171
stop_cancel ==
    /\ prog = "basic"
    /\ th[MAIN].pc = "stop_timer"
    /\ th' = [(IF scan_timer # NoTimer THEN cancel(th, scan_timer) ELSE th)
                EXCEPT ![MAIN].pc = "stopped"]
    /\ UNCHANGED <<enh, prog, host, svc, health, eof, now, src, tape, running, last_scan_time,
                   scan_buffer, scan_timer, char, tmp, wake, calls, accepted, posts,
                   cycle, lastChar>>

\* ---------------------------------------- RFIDListener.handle_input_char
\* line 124, the load of "self.scan_buffer += char"
h_load ==
    /\ prog = "basic"
    /\ th[MAIN].pc = "h_load"
    /\ tmp' = scan_buffer
    /\ Goto(MAIN, "h_store")
    /\ UNCHANGED <<enh, prog, host, svc, health, eof, now, src, tape, running, last_scan_time, scan_buffer,
                   scan_timer, char, wake, calls, accepted, posts, cycle, lastChar>>

\* line 124, the store of "self.scan_buffer += char"
h_store ==
    /\ prog = "basic"
    /\ th[MAIN].pc = "h_store"
    /\ scan_buffer' = Append(tmp, char)
    /\ tmp' = <<>>
    /\ cycle' = IF scan_buffer = <<>> THEN cycle + 1 ELSE cycle
    /\ lastChar' = now
    /\ Goto(MAIN, "h_check")
    /\ UNCHANGED <<enh, prog, host, svc, health, eof, now, src, tape, running, last_scan_time, scan_timer,
                   char, wake, calls, accepted, posts>>

\* line 127
h_check ==
    /\ prog = "basic"
    /\ th[MAIN].pc = "h_check"
    /\ Goto(MAIN, IF scan_timer # NoTimer THEN "h_cancel" ELSE "h_new")
    /\ UNCHANGED <<enh, prog, host, svc, health, eof, now, src, tape, running, last_scan_time, scan_buffer,
                   scan_timer, char, tmp, wake, calls, accepted, posts, cycle,
                   lastChar>>

\* line 128: self.scan_timer is read again; None has no cancel()
h_cancel ==
    /\ prog = "basic"
    /\ th[MAIN].pc = "h_cancel"
    /\ IF scan_timer = NoTimer
       THEN RaiseInLoop
       ELSE /\ th' = [cancel(th, scan_timer) EXCEPT ![MAIN].pc = "h_new"]
            /\ UNCHANGED wake
    /\ UNCHANGED <<enh, prog, host, svc, health, eof, now, src, tape, running, last_scan_time, scan_buffer,
                   scan_timer, char, tmp, calls, accepted, posts, cycle, lastChar>>

\* line 130
h_new ==
    /\ prog = "basic"
    /\ th[MAIN].pc = "h_new"
    /\ LET id == Cardinality(DOMAIN th) IN
         /\ th' = [th EXCEPT ![MAIN].pc = "h_start"] @@ (id :> Frame("created"))
         /\ scan_timer' = id
    /\ UNCHANGED <<enh, prog, host, svc, health, eof, now, src, tape, running, last_scan_time, scan_buffer,
                   char, tmp, wake, calls, accepted, posts, cycle, lastChar>>

\* line 131: self.scan_timer is read again; the Timer waits SCAN_TIMEOUT
h_start ==
    /\ prog = "basic"
    /\ th[MAIN].pc = "h_start"
    /\ IF scan_timer = NoTimer
       THEN RaiseInLoop
       ELSE /\ th' = [th EXCEPT ![MAIN].pc = "read",
                                ![scan_timer].pc = "pending",
                                ![scan_timer].deadline = now + SCAN_TIMEOUT]
            /\ UNCHANGED wake
    /\ UNCHANGED <<enh, prog, host, svc, health, eof, now, src, tape, running, last_scan_time, scan_buffer,
                   scan_timer, char, tmp, calls, accepted, posts, cycle, lastChar>>

\* line 115
h_term ==
    /\ prog = "basic"
    /\ th[MAIN].pc = "h_term"
    /\ Goto(MAIN, IF scan_timer # NoTimer THEN "h_term_cancel" ELSE "h_term_buf")
    /\ UNCHANGED <<enh, prog, host, svc, health, eof, now, src, tape, running, last_scan_time, scan_buffer,
                   scan_timer, char, tmp, wake, calls, accepted, posts, cycle,
                   lastChar>>

\* line 116
h_term_cancel ==
    /\ prog = "basic"
    /\ th[MAIN].pc = "h_term_cancel"
    /\ IF scan_timer = NoTimer
       THEN RaiseInLoop
       ELSE /\ th' = [cancel(th, scan_timer) EXCEPT ![MAIN].pc = "h_term_none"]
            /\ UNCHANGED wake
    /\ UNCHANGED <<enh, prog, host, svc, health, eof, now, src, tape, running, last_scan_time, scan_buffer,
                   scan_timer, char, tmp, calls, accepted, posts, cycle, lastChar>>

\* line 117
h_term_none ==
    /\ prog = "basic"
    /\ th[MAIN].pc = "h_term_none"
    /\ scan_timer' = NoTimer
    /\ Goto(MAIN, "h_term_buf")
    /\ UNCHANGED <<enh, prog, host, svc, health, eof, now, src, tape, running, last_scan_time, scan_buffer,
                   char, tmp, wake, calls, accepted, posts, cycle, lastChar>>

\* line 119
h_term_buf ==
    /\ prog = "basic"
    /\ th[MAIN].pc = "h_term_buf"
    /\ Goto(MAIN, IF scan_buffer # <<>> THEN "h_term_call" ELSE "read")
    /\ UNCHANGED <<enh, prog, host, svc, health, eof, now, src, tape, running, last_scan_time, scan_buffer,
                   scan_timer, char, tmp, wake, calls, accepted, posts, cycle,
                   lastChar>>

\* line 120: self.scan_buffer is read again for the argument
h_term_call ==
    /\ prog = "basic"
    /\ th[MAIN].pc = "h_term_call"
    /\ Call(MAIN, scan_buffer, "h_term_clear")
    /\ UNCHANGED <<enh, prog, host, svc, health, eof, now, src, tape, running, last_scan_time, scan_buffer,
                   scan_timer, char, tmp, wake, accepted, posts, cycle, lastChar>>

\* line 121
h_term_clear ==
    /\ prog = "basic"
    /\ th[MAIN].pc = "h_term_clear"
    /\ scan_buffer' = <<>>
    /\ Goto(MAIN, "read")
    /\ UNCHANGED <<enh, prog, host, svc, health, eof, now, src, tape, running, last_scan_time, scan_timer,
                   char, tmp, wake, calls, accepted, posts, cycle, lastChar>>

\* --------------------------- threading.Timer and RFIDListener.flush_scan_buffer
\* Timer.run: the wait is over and the Timer was not cancelled: call the function
timer_fire(i) ==
    /\ prog = "basic"
    /\ th[i].pc = "pending"
    /\ now >= th[i].deadline
    /\ th' = [th EXCEPT ![i] = Frame("f_check")]
    /\ UNCHANGED <<enh, prog, host, svc, health, eof, now, src, tape, running, last_scan_time, scan_buffer,
                   scan_timer, char, tmp, wake, calls, accepted, posts, cycle,
                   lastChar>>

\* line 105
f_check(i) ==
    /\ prog = "basic"
    /\ th[i].pc = "f_check"
    /\ Goto(i, IF scan_buffer # <<>> THEN "f_call" ELSE "f_none")
    /\ UNCHANGED <<enh, prog, host, svc, health, eof, now, src, tape, running, last_scan_time, scan_buffer,
                   scan_timer, char, tmp, wake, calls, accepted, posts, cycle,
                   lastChar>>

\* line 107: self.scan_buffer is read again for the argument
f_call(i) ==
    /\ prog = "basic"
    /\ th[i].pc = "f_call"
    /\ Call(i, scan_buffer, "f_clear")
    /\ UNCHANGED <<enh, prog, host, svc, health, eof, now, src, tape, running, last_scan_time, scan_buffer,
                   scan_timer, char, tmp, wake, accepted, posts, cycle, lastChar>>

\* line 108
f_clear(i) ==
    /\ prog = "basic"
    /\ th[i].pc = "f_clear"
    /\ scan_buffer' = <<>>
    /\ Goto(i, "f_none")
    /\ UNCHANGED <<enh, prog, host, svc, health, eof, now, src, tape, running, last_scan_time, scan_timer,
                   char, tmp, wake, calls, accepted, posts, cycle, lastChar>>

\* line 109; the thread ends
f_none(i) ==
    /\ prog = "basic"
    /\ th[i].pc = "f_none"
    /\ scan_timer' = NoTimer
    /\ th' = [th EXCEPT ![i] = Frame("done")]
    /\ UNCHANGED <<enh, prog, host, svc, health, eof, now, src, tape, running, last_scan_time, scan_buffer,
                   char, tmp, wake, calls, accepted, posts, cycle, lastChar>>

\* ------------------------------------------------------------------ the clock
\* positions where a thread waits: for input, for the server, for a sleep or a
\* Timer's wait to end; everything else takes no time at this resolution
Waiting(f) == f.pc \in {"start", "read", "eof_sleep", "exc", "ps_post", "created",
                        "pending", "cancelled", "done", "stopped"}

\* something is still to come: a scan, a Timer's wait, a response, a wake-up
Pending == \/ tape # <<>>
           \/ \E t \in DOMAIN th : th[t].pc \in {"pending", "ps_post", "exc"}

\* a tick passes; a Timer whose wait is over runs first, and the reader
\* sends the characters of one scan in a burst
Tick ==
    /\ prog = "basic"
    /\ now < MaxTime
    /\ src = <<>>
    /\ Pending
    /\ \A t \in DOMAIN th : Waiting(th[t])
    /\ \A i \in Timers : th[i].pc = "pending" => th[i].deadline > now
    /\ now' = now + 1
    /\ UNCHANGED <<enh, prog, host, svc, health, eof, src, tape, running, last_scan_time, scan_buffer,
                   scan_timer, th, char, tmp, wake, calls, accepted, posts, cycle,
                   lastChar>>

NextBasic ==
    \/ main_check
    \/ main_sleep
    \/ start_listening
    \/ read_char
    \/ read_error_resume
    \/ close_stdin
    \/ read_eof
    \/ eof_resume
    \/ interrupt
    \/ stop_running
    \/ stop_cancel
    \/ h_load
    \/ h_store
    \/ h_check
    \/ h_cancel
    \/ h_new
    \/ h_start
    \/ h_term
    \/ h_term_cancel
    \/ h_term_none
    \/ h_term_buf
    \/ h_term_call
    \/ h_term_clear
    \/ \E i \in Timers : timer_fire(i)
    \/ \E i \in Timers : f_check(i)
    \/ \E i \in Timers : f_call(i)
    \/ \E i \in Timers : f_clear(i)
    \/ \E i \in Timers : f_none(i)
    \/ \E t \in DOMAIN th : ps_check(t)
    \/ \E t \in DOMAIN th : ps_accept(t)
    \/ \E t \in DOMAIN th : ps_post(t)
    \/ Tick

SpecBasic == InitBasic /\ [][NextBasic]_vars

\* the steps of the program's own threads: everything but what the world does
\* to it (Ctrl-C, the closing of stdin)
ProgramBasic ==
    /\ NextBasic
    /\ ~ interrupt
    /\ ~ close_stdin

\* the interpreter keeps running a thread that can run
SpecBasicFair == SpecBasic /\ WF_vars(ProgramBasic)

\* ================================================= rfid_listener_enhanced.py
\* struct.calcsize('llHHI')
EVENT_SIZE == 24
EV_KEY == 1
KEY_PRESS == 1
KEY_ENTER == 28

DigitRow == <<"1", "2", "3", "4", "5", "6", "7", "8", "9", "0">>
TopRow == <<"q", "w", "e", "r", "t", "y", "u", "i", "o", "p">>
HomeRow == <<"a", "s", "d", "f", "g", "h", "j", "k", "l">>
BottomRow == <<"z", "x", "c", "v", "b", "n", "m">>

\* keycode_to_char with a mark for the codes that are not in the keymap
keycode_to_char_marks_unmapped(keycode) ==
    IF keycode \in 2..11 THEN DigitRow[keycode - 1]
    ELSE IF keycode \in 16..25 THEN TopRow[keycode - 15]
    ELSE IF keycode \in 30..38 THEN HomeRow[keycode - 29]
    ELSE IF keycode \in 44..50 THEN BottomRow[keycode - 43]
    ELSE IF keycode = KEY_ENTER THEN "\n"
    ELSE "?"

\* keycode_to_char with the digit row off by one key
keycode_to_char_off_by_one(keycode) ==
    IF keycode \in 1..10 THEN DigitRow[keycode]
    ELSE IF keycode \in 16..25 THEN TopRow[keycode - 15]
    ELSE IF keycode \in 30..38 THEN HomeRow[keycode - 29]
    ELSE IF keycode \in 44..50 THEN BottomRow[keycode - 43]
    ELSE IF keycode = KEY_ENTER THEN "\n"
    ELSE ""

\* EnhancedRFIDListener.keycode_to_char: keymap.get(keycode, '')
keycode_to_char(keycode) ==
    IF keycode \in 2..11 THEN DigitRow[keycode - 1]
    ELSE IF keycode \in 16..25 THEN TopRow[keycode - 15]
    ELSE IF keycode \in 30..38 THEN HomeRow[keycode - 29]
    ELSE IF keycode \in 44..50 THEN BottomRow[keycode - 43]
    ELSE IF keycode = KEY_ENTER THEN "\n"
    ELSE ""

\* the listener's data as one value: the buffer, DedupState and the histories
Listener(buf, last, c, a, p) ==
    [scan_buffer |-> buf, last_scan_time |-> last, calls |-> c, accepted |-> a,
     posts |-> p]

\* enhanced_process_scan with a duplicate restarting the window
enhanced_process_scan_sliding(st, rfid_data, t, o) ==
    LET rfid == strip(rfid_data)
        called == [st EXCEPT !.calls = Append(@, [data |-> rfid_data, cycle |-> 0])]
    IN  IF ~ enhanced_is_valid_rfid(rfid) THEN called
        ELSE IF t - st.last_scan_time < DEDUP_WINDOW
        THEN [called EXCEPT !.last_scan_time = t]
        ELSE [called EXCEPT
                !.last_scan_time = t,
                !.accepted = Append(@, [rfid |-> rfid, t |-> t]),
                !.posts = Append(@, [rfid |-> rfid, acc |-> Len(st.accepted) + 1,
                                     ok |-> (o = "200"), t |-> t])]

\* enhanced_process_scan that refuses every scan after a POST that failed
enhanced_process_scan_gives_up(st, rfid_data, t, o) ==
    LET rfid == strip(rfid_data)
        called == [st EXCEPT !.calls = Append(@, [data |-> rfid_data, cycle |-> 0])]
    IN  IF ~ enhanced_is_valid_rfid(rfid) THEN called
        ELSE IF t - st.last_scan_time < DEDUP_WINDOW THEN called
        ELSE IF st.posts # <<>> /\ ~ st.posts[Len(st.posts)].ok THEN called
        ELSE [called EXCEPT
                !.last_scan_time = t,
                !.accepted = Append(@, [rfid |-> rfid, t |-> t]),
                !.posts = Append(@, [rfid |-> rfid, acc |-> Len(st.accepted) + 1,
                                     ok |-> (o = "200"), t |-> t])]

\* enhanced_process_scan taking the acceptance back when the POST fails
enhanced_process_scan_rolls_back(st, rfid_data, t, o) ==
    LET rfid == strip(rfid_data)
        called == [st EXCEPT !.calls = Append(@, [data |-> rfid_data, cycle |-> 0])]
    IN  IF ~ enhanced_is_valid_rfid(rfid) THEN called
        ELSE IF t - st.last_scan_time < DEDUP_WINDOW THEN called
        ELSE [called EXCEPT
                !.last_scan_time = IF o = "200" THEN t ELSE st.last_scan_time,
                !.accepted = Append(@, [rfid |-> rfid, t |-> t]),
                !.posts = Append(@, [rfid |-> rfid, acc |-> Len(st.accepted) + 1,
                                     ok |-> (o = "200"), t |-> t])]

\* EnhancedRFIDListener.process_scan at time t, the POST ending in o
enhanced_process_scan(st, rfid_data, t, o) ==
    LET rfid == strip(rfid_data)
        called == [st EXCEPT !.calls = Append(@, [data |-> rfid_data, cycle |-> 0])]
    IN  IF ~ enhanced_is_valid_rfid(rfid) THEN called
        ELSE IF t - st.last_scan_time < DEDUP_WINDOW THEN called
        ELSE [called EXCEPT
                !.last_scan_time = t,
                !.accepted = Append(@, [rfid |-> rfid, t |-> t]),
                !.posts = Append(@, [rfid |-> rfid, acc |-> Len(st.accepted) + 1,
                                     ok |-> (o = "200"), t |-> t])]

\* read_rfid_from_stdin, lines 141-147: one character read
stdin_char(st, c, t, o) ==
    IF c \in {"\n", "\r"}
    THEN IF strip(st.scan_buffer) # <<>>
         THEN [enhanced_process_scan(st, strip(st.scan_buffer), t, o)
                 EXCEPT !.scan_buffer = <<>>]
         ELSE st
    ELSE [st EXCEPT !.scan_buffer = Append(@, c)]

\* device_event without the test for a key press: releases and repeats count
device_event_any_value(st, ev, t, o) ==
    IF ev.size = EVENT_SIZE
    THEN IF ev.type = EV_KEY
         THEN LET c == keycode_to_char(ev.code) IN
              IF c # ""
              THEN IF c = "\n"
                   THEN IF strip(st.scan_buffer) # <<>>
                        THEN [enhanced_process_scan(st, strip(st.scan_buffer), t, o)
                                EXCEPT !.scan_buffer = <<>>]
                        ELSE st
                   ELSE [st EXCEPT !.scan_buffer = Append(@, c)]
              ELSE st
         ELSE st
    ELSE st

\* device_event without the length test: whatever was read is decoded
device_event_decodes_short(st, ev, t, o) ==
    IF ev.type = EV_KEY /\ ev.value = KEY_PRESS
    THEN LET c == keycode_to_char(ev.code) IN
         IF c # ""
         THEN IF c = "\n"
              THEN IF strip(st.scan_buffer) # <<>>
                   THEN [enhanced_process_scan(st, strip(st.scan_buffer), t, o)
                           EXCEPT !.scan_buffer = <<>>]
                   ELSE st
              ELSE [st EXCEPT !.scan_buffer = Append(@, c)]
         ELSE st
    ELSE st

\* read_rfid_from_device, lines 170-186: one device.read(event_size)
device_event(st, ev, t, o) ==
    IF ev.size = EVENT_SIZE
    THEN IF ev.type = EV_KEY /\ ev.value = KEY_PRESS
         THEN LET c == keycode_to_char(ev.code) IN
              IF c # ""
              THEN IF c = "\n"
                   THEN IF strip(st.scan_buffer) # <<>>
                        THEN [enhanced_process_scan(st, strip(st.scan_buffer), t, o)
                                EXCEPT !.scan_buffer = <<>>]
                        ELSE st
                   ELSE [st EXCEPT !.scan_buffer = Append(@, c)]
              ELSE st
         ELSE st
    ELSE st

\* ----------------------------------------------------- the device's records
Event(type, code, value) == [size |-> EVENT_SIZE, type |-> type, code |-> code,
                             value |-> value]
Press(code) == Event(EV_KEY, code, KEY_PRESS)
\* a read that returned fewer bytes than one record: the bytes of a press of
\* "a", cut short
ShortRead == [size |-> 20, type |-> EV_KEY, code |-> 30, value |-> KEY_PRESS]

\* key presses for "1".."6" and Enter
DevScanA == <<Press(2), Press(3), Press(4), Press(5), Press(6), Press(7),
              Press(KEY_ENTER)>>
\* "ab" as a keyboard sends it, with a record of another class, releases, a
\* repeat, a sync record, an unmapped key, two short reads, then Enter
DevScanB == <<Event(4, 4, 1), Press(30), Event(EV_KEY, 30, 0), Event(0, 0, 0),
              ShortRead, Press(48), Event(EV_KEY, 48, 2), Press(42), ShortRead,
              Press(KEY_ENTER)>>
\* "123456" with no Enter
DevScanC == <<Press(2), Press(3), Press(4), Press(5), Press(6), Press(7)>>
DeviceScans == { DevScanA, DevScanB, DevScanC, <<Press(KEY_ENTER)>> }
DeviceTapes == { <<x>> : x \in DeviceScans } \cup (DeviceScans \X DeviceScans)

\* stdin of the fallback: the basic listener's scans, "A1B2C3", and a space
\* typed into the terminal before Enter
EnhStdinScans == StdinScans \cup { <<"A", "1", "B", "2", "C", "3", "\n">>,
                                   <<" ", "\n">> }
EnhStdinTapes == { <<x>> : x \in EnhStdinScans } \cup (EnhStdinScans \X EnhStdinScans)

\* ------------------------------------------------------- find_rfid_device
\* the registry: unreadable (the open raises), no block matches a pattern, a
\* block matches but names no event handler, its /dev/input/eventN is missing,
\* or a full match
RegistryStates == {"unreadable", "nomatch", "nohandler", "nopath", "match"}
\* the by-id directory: absent, no link matches, a matching link that does not
\* resolve, or a full match
ByIdStates == {"absent", "nomatch", "dangling", "match"}

\* find_rfid_device with the enumeration layer selecting the first device it lists
find_rfid_device_takes_listed(reg, byid) ==
    IF reg = "match" THEN "/dev/input/event3"
    ELSE IF byid = "match" THEN "/dev/input/event5"
    ELSE "/dev/input/event0"

\* find_rfid_device with the by-id layer tried before the registry
find_rfid_device_by_id_first(reg, byid) ==
    IF byid = "match" THEN "/dev/input/event5"
    ELSE IF reg = "match" THEN "/dev/input/event3"
    ELSE None

\* lines 59-102: the layers in order; the enumeration of event0..19 only logs
find_rfid_device(reg, byid) ==
    IF reg = "match" THEN "/dev/input/event3"
    ELSE IF byid = "match" THEN "/dev/input/event5"
    ELSE None

\* lines 59-99, the layers the function goes through: the registry always; the
\* by-id directory unless the registry layer returned; the enumeration unless
\* one of the two returned
find_rfid_device_layers(reg, byid) ==
    IF reg = "match" THEN <<"registry">>
    ELSE IF byid = "match" THEN <<"registry", "by_id">>
    ELSE <<"registry", "by_id", "enumeration">>

\* ------------------------------------------------------ test_device_input
\* the open, the select and the read: data arrived, the read came back empty,
\* nothing was ready in time, PermissionError, another exception
ProbeOutcomes == {"data", "empty", "timeout", "permission", "error"}

\* test_device_input without the "if data" test
test_device_input_any_read(o) ==
    IF o \in {"data", "empty"} THEN "True" ELSE "False"

\* lines 107-131: True, False, or None where the function falls off its end
test_device_input(o) ==
    IF o = "data" THEN "True"
    ELSE IF o = "empty" THEN None
    ELSE "False"

\* ------------------------------------------------------------------- state
InitEnh ==
    /\ prog = "enhanced"
    /\ now = StartTime
    /\ src = <<>>
    /\ tape = <<>>
    /\ running = FALSE
    /\ last_scan_time = 0
    /\ scan_buffer = <<>>
    /\ scan_timer = NoTimer
    /\ th = (MAIN :> Frame("main"))
    /\ char = ""
    /\ tmp = <<>>
    /\ wake = 0
    /\ calls = <<>>
    /\ accepted = <<>>
    /\ posts = <<>>
    /\ cycle = 0
    /\ lastChar = 0
    /\ registry \in RegistryStates
    /\ by_id \in ByIdStates
    /\ layers = <<>>
    /\ device_path = None
    /\ probe = "notrun"
    /\ strategy = "none"
    /\ dev = <<>>
    /\ cand = <<>>
    /\ fed = <<>>
    /\ health = "unchecked"
    /\ eof = FALSE
    /\ NoHost
    /\ NoService

Self == Listener(scan_buffer, last_scan_time, calls, accepted, posts)

Become(st) ==
    /\ scan_buffer' = st.scan_buffer
    /\ last_scan_time' = st.last_scan_time
    /\ calls' = st.calls
    /\ accepted' = st.accepted
    /\ posts' = st.posts

\* ------------------------------------ EnhancedRFIDListener.start_listening
\* lines 267-273 and 281-284; what the chosen source will deliver is fixed when
\* the read function is entered
enhanced_start_listening ==
    /\ prog = "enhanced"
    /\ th[MAIN].pc = "start"
    /\ running' = TRUE
    /\ device_path' = find_rfid_device(registry, by_id)
    /\ layers' = find_rfid_device_layers(registry, by_id)
    /\ IF device_path' # None
       THEN Goto(MAIN, "probe") /\ UNCHANGED <<strategy, tape>>
       ELSE Goto(MAIN, "stdin") /\ strategy' = "stdin" /\ tape' \in EnhStdinTapes
    /\ UNCHANGED <<prog, host, svc, health, eof, now, src, last_scan_time, scan_buffer, scan_timer,
                   char, tmp, wake, calls, accepted, posts, cycle, lastChar,
                   registry, by_id, probe, dev, cand, fed>>

\* lines 275-280
enhanced_probe ==
    /\ prog = "enhanced"
    /\ th[MAIN].pc = "probe"
    /\ \E o \in ProbeOutcomes :
         /\ probe' = o
         /\ IF test_device_input(o) = "True"
            THEN Goto(MAIN, "device_open") /\ strategy' = "device" /\ UNCHANGED tape
            ELSE Goto(MAIN, "stdin") /\ strategy' = "stdin" /\ tape' \in EnhStdinTapes
    /\ UNCHANGED <<prog, host, svc, health, eof, now, src, running, last_scan_time, scan_buffer,
                   scan_timer, char, tmp, wake, calls, accepted, posts, cycle,
                   lastChar, registry, by_id, layers, device_path, dev, cand, fed>>

\* -------------------------- EnhancedRFIDListener.read_rfid_from_device
\* open(device_path, 'rb'): it opens, or raises PermissionError or another error
OpenOutcomes == {"ok", "permission", "error"}

\* enhanced_open_device going on to read_rfid_from_stdin when the open fails
enhanced_open_device_falls_back ==
    /\ prog = "enhanced"
    /\ th[MAIN].pc = "device_open"
    /\ \E o \in OpenOutcomes :
         IF o = "ok"
         THEN Goto(MAIN, "device") /\ tape' \in DeviceTapes
         ELSE Goto(MAIN, "stdin") /\ tape' \in EnhStdinTapes
    /\ UNCHANGED <<prog, host, svc, health, eof, now, src, running, last_scan_time, scan_buffer,
                   scan_timer, char, tmp, wake, calls, accepted, posts, cycle,
                   lastChar, registry, by_id, layers, device_path, probe, strategy, dev,
                   cand, fed>>

\* lines 157-166 and 192-198: the open; when it raises the function returns
\* False, start_listening returns and main ends
enhanced_open_device ==
    /\ prog = "enhanced"
    /\ th[MAIN].pc = "device_open"
    /\ \E o \in OpenOutcomes :
         IF o = "ok"
         THEN Goto(MAIN, "device") /\ tape' \in DeviceTapes
         ELSE Goto(MAIN, "returned") /\ UNCHANGED tape
    /\ UNCHANGED <<prog, host, svc, health, eof, now, src, running, last_scan_time, scan_buffer,
                   scan_timer, char, tmp, wake, calls, accepted, posts, cycle,
                   lastChar, registry, by_id, layers, device_path, probe, strategy, dev,
                   cand, fed>>

\* lines 171 and 188-190: the reader is unplugged after its last scan and
\* device.read raises from then on: the error is logged, the loop sleeps 0.1 s
\* and iterates
enhanced_read_device_error ==
    /\ prog = "enhanced"
    /\ th[MAIN].pc = "device"
    /\ running
    /\ src = <<>> /\ tape = <<>>
    /\ ~ eof
    /\ eof' = TRUE
    /\ UNCHANGED <<prog, host, svc, health, now, src, tape, running, last_scan_time, scan_buffer,
                   scan_timer, th, char, tmp, wake, calls, accepted, posts, cycle,
                   lastChar, enh>>

\* the next thing the source delivers: of the scan being sent, or of a new scan
NextInput == IF src # <<>> THEN Head(src) ELSE Head(Head(tape))
Consume ==
    /\ src' = IF src # <<>> THEN Tail(src) ELSE Tail(Head(tape))
    /\ tape' = IF src # <<>> THEN tape ELSE Tail(tape)

\* read_rfid_from_stdin: one iteration of the loop, lines 139-147
enhanced_read_stdin ==
    /\ prog = "enhanced"
    /\ th[MAIN].pc = "stdin"
    /\ running
    /\ src # <<>> \/ tape # <<>>
    /\ \E o \in Outcomes : Become(stdin_char(Self, NextInput, now, o))
    /\ Consume
    /\ fed' = Append(fed, NextInput)
    /\ UNCHANGED <<prog, host, svc, health, eof, now, running, scan_timer, th, char, tmp, wake, cycle,
                   lastChar, registry, by_id, layers, device_path, probe, strategy, dev,
                   cand>>

\* read_rfid_from_device: one iteration of the loop, lines 167-186
enhanced_read_device ==
    /\ prog = "enhanced"
    /\ th[MAIN].pc = "device"
    /\ running
    /\ src # <<>> \/ tape # <<>>
    /\ \E o \in Outcomes : Become(device_event(Self, NextInput, now, o))
    /\ Consume
    /\ fed' = Append(fed, NextInput)
    /\ UNCHANGED <<prog, host, svc, health, eof, now, running, scan_timer, th, char, tmp, wake, cycle,
                   lastChar, registry, by_id, layers, device_path, probe, strategy, dev,
                   cand>>

\* a tick passes between two scans, or while characters wait in the buffer
enhanced_tick ==
    /\ prog = "enhanced"
    /\ now < MaxTime
    /\ th[MAIN].pc \in {"stdin", "device"}
    /\ src = <<>>
    /\ tape # <<>> \/ scan_buffer # <<>>
    /\ now' = now + 1
    /\ UNCHANGED <<prog, host, svc, health, eof, src, tape, running, last_scan_time, scan_buffer,
                   scan_timer, th, char, tmp, wake, calls, accepted, posts, cycle,
                   lastChar, enh>>

NextEnh ==
    \/ main_check
    \/ main_sleep
    \/ enhanced_start_listening
    \/ enhanced_probe
    \/ enhanced_open_device
    \/ enhanced_read_stdin
    \/ enhanced_read_device
    \/ enhanced_read_device_error
    \/ enhanced_tick

SpecEnh == InitEnh /\ [][NextEnh]_vars

\* a host with a reader in the registry or with none, and no by-id directory
InitEnhFew ==
    /\ InitEnh
    /\ registry \in {"nomatch", "match"}
    /\ by_id = "absent"

\* the listener has one thread, and the interpreter keeps running it
SpecEnhFair == InitEnhFew /\ [][NextEnh]_vars /\ WF_vars(NextEnh)

\* ===================================================== process_scan alone
\* candidates: a run of "7" of any length up to the bound, at most one of its
\* characters replaced, with or without whitespace around it
Pads == { <<>>, <<" ">>, <<"\t">> }
Fill(n) == [i \in 1..n |-> "7"]
Cores == { Fill(n) : n \in 0..MaxCandLen } \cup
         { [Fill(n) EXCEPT ![q] = c] :
             n \in 1..MaxCandLen, q \in 1..MaxCandLen, c \in {" ", "-", "\t"} }
Candidates == { l \o c \o r : l \in Pads, c \in Cores, r \in Pads }

\* a fresh listener of either class, about to run process_scan(cand)
InitValid ==
    /\ prog \in {"validate", "validate_enhanced"}
    /\ cand \in Candidates
    /\ now = StartTime
    /\ src = <<>>
    /\ tape = <<>>
    /\ running = TRUE
    /\ last_scan_time = 0
    /\ scan_buffer = <<>>
    /\ scan_timer = NoTimer
    /\ th = (MAIN :> [Frame("ps_check") EXCEPT !.arg = cand, !.ret = "returned"])
    /\ char = ""
    /\ tmp = <<>>
    /\ wake = 0
    /\ calls = <<>>
    /\ accepted = <<>>
    /\ posts = <<>>
    /\ cycle = 0
    /\ lastChar = 0
    /\ registry = "unused"
    /\ by_id = "unused"
    /\ layers = <<>>
    /\ device_path = None
    /\ probe = "notrun"
    /\ strategy = "none"
    /\ dev = <<>>
    /\ fed = <<>>
    /\ health = "200"
    /\ eof = FALSE
    /\ NoHost
    /\ NoService

\* EnhancedRFIDListener.process_scan(cand), start to end
validate_enhanced ==
    /\ prog = "validate_enhanced"
    /\ th[MAIN].pc = "ps_check"
    /\ \E o \in Outcomes : Become(enhanced_process_scan(Self, cand, now, o))
    /\ Goto(MAIN, "returned")
    /\ UNCHANGED <<prog, host, svc, health, eof, now, src, tape, running, scan_timer, char, tmp, wake,
                   cycle, lastChar, enh>>

NextValid ==
    \/ ps_check(MAIN)
    \/ ps_accept(MAIN)
    \/ ps_post(MAIN)
    \/ validate_enhanced

SpecValid == InitValid /\ [][NextValid]_vars

\* ============================ the two strategies of the enhanced listener,
\* side by side on one event stream
\* what a terminal receives for a record of the keyboard-emulating reader: the
\* character of a pressed key
tty_char(ev) ==
    IF ev.size = EVENT_SIZE /\ ev.type = EV_KEY /\ ev.value = KEY_PRESS
    THEN keycode_to_char(ev.code)
    ELSE ""

InitEquiv ==
    /\ prog = "equiv"
    /\ cand = <<>>
    /\ now = StartTime
    /\ src = <<>>
    /\ tape \in DeviceTapes
    /\ running = TRUE
    /\ last_scan_time = 0
    /\ scan_buffer = <<>>
    /\ scan_timer = NoTimer
    /\ th = (MAIN :> Frame("stdin"))
    /\ char = ""
    /\ tmp = <<>>
    /\ wake = 0
    /\ calls = <<>>
    /\ accepted = <<>>
    /\ posts = <<>>
    /\ cycle = 0
    /\ lastChar = 0
    /\ registry = "unused"
    /\ by_id = "unused"
    /\ layers = <<>>
    /\ device_path = None
    /\ probe = "notrun"
    /\ strategy = "none"
    /\ dev = Listener(<<>>, 0, <<>>, <<>>, <<>>)
    /\ fed = <<>>
    /\ health = "200"
    /\ eof = FALSE
    /\ NoHost
    /\ NoService

\* one record reaches read_rfid_from_device, and its character, if it has one,
\* reaches read_rfid_from_stdin; Enter is a newline or a carriage return there
both_read ==
    /\ prog = "equiv"
    /\ src # <<>> \/ tape # <<>>
    /\ \E o \in Outcomes :
         /\ dev' = device_event(dev, NextInput, now, o)
         /\ LET c == tty_char(NextInput) IN
              IF c = "" THEN UNCHANGED <<scan_buffer, last_scan_time, calls, accepted,
                                         posts>>
              ELSE \E k \in (IF c = "\n" THEN {"\n", "\r"} ELSE {c}) :
                     Become(stdin_char(Self, k, now, o))
    /\ Consume
    /\ fed' = Append(fed, NextInput)
    /\ UNCHANGED <<prog, host, svc, health, eof, now, running, scan_timer, th, char, tmp, wake, cycle,
                   lastChar, registry, by_id, layers, device_path, probe, strategy, cand>>

both_tick ==
    /\ prog = "equiv"
    /\ now < MaxTime
    /\ src = <<>>
    /\ tape # <<>>
    /\ now' = now + 1
    /\ UNCHANGED <<prog, host, svc, health, eof, src, tape, running, last_scan_time, scan_buffer,
                   scan_timer, th, char, tmp, wake, calls, accepted, posts, cycle,
                   lastChar, enh>>

NextEquiv ==
    \/ both_read
    \/ both_tick

SpecEquiv == InitEquiv /\ [][NextEquiv]_vars

\* ================================================== macos_playback_host.py
\* requests a server gets in one run
MaxRequests == 3

\* the listeners out of the picture
NoListener ==
    /\ now = 0
    /\ src = <<>>
    /\ tape = <<>>
    /\ running = FALSE
    /\ last_scan_time = 0
    /\ scan_buffer = <<>>
    /\ scan_timer = NoTimer
    /\ th = (MAIN :> Frame("none"))
    /\ char = ""
    /\ tmp = <<>>
    /\ wake = 0
    /\ calls = <<>>
    /\ accepted = <<>>
    /\ posts = <<>>
    /\ cycle = 0
    /\ lastChar = 0
    /\ registry = "unused"
    /\ by_id = "unused"
    /\ layers = <<>>
    /\ device_path = None
    /\ probe = "notrun"
    /\ strategy = "none"
    /\ dev = <<>>
    /\ cand = <<>>
    /\ fed = <<>>
    /\ health = "unchecked"
    /\ eof = FALSE

\* player = MusicPlayer(), then app.run: Flask serves each request in a thread
InitPlay ==
    /\ prog = "playback"
    /\ NoListener
    /\ NoHost
    /\ NoService

\* a thread of the server, as it enters its handler
Handler(route, pc) == [route |-> route, pc |-> pc]

HGoto(h, p) == handlers' = [handlers EXCEPT ![h].pc = p]
PGoto(k, p) == players' = [players EXCEPT ![k].pc = p]

\* Popen.poll() is None: the process has not ended
Alive(p) == procs[p] # "exited"

\* lines 102-138: POST /play; the request is refused (no data, no rfid, no such
\* directory) or play_directory is called
play_music ==
    /\ prog = "playback"
    /\ Len(handlers) < MaxRequests
    /\ \E ok \in BOOLEAN :
         handlers' = Append(handlers, Handler("play", IF ok THEN "s_check" ELSE "done"))
    /\ UNCHANGED <<prog, listener, svc, current_process, is_playing, procs, players>>

\* lines 157-161: POST /stop
stop_music ==
    /\ prog = "playback"
    /\ Len(handlers) < MaxRequests
    /\ handlers' = Append(handlers, Handler("stop", "s_check"))
    /\ UNCHANGED <<prog, listener, svc, current_process, is_playing, procs, players>>

\* line 33
stop_check(h) ==
    /\ prog = "playback"
    /\ handlers[h].pc = "s_check"
    /\ IF current_process # 0
       THEN HGoto(h, IF Alive(current_process) THEN "s_term" ELSE "s_flag")
       ELSE HGoto(h, "s_flag")
    /\ UNCHANGED <<prog, listener, svc, current_process, is_playing, procs, players>>

\* line 34: SIGTERM to the process current_process refers to now
stop_terminate(h) ==
    /\ prog = "playback"
    /\ handlers[h].pc = "s_term"
    /\ procs' = [procs EXCEPT ![current_process] =
                    IF @ = "running" THEN "terminating" ELSE @]
    /\ HGoto(h, "s_wait")
    /\ UNCHANGED <<prog, listener, svc, current_process, is_playing, players>>

\* lines 35-37: wait(timeout=5) returns, or raises TimeoutExpired
stop_wait(h) ==
    /\ prog = "playback"
    /\ handlers[h].pc = "s_wait"
    /\ HGoto(h, IF Alive(current_process) THEN "s_kill" ELSE "s_flag")
    /\ UNCHANGED <<prog, listener, svc, current_process, is_playing, procs, players>>

\* line 38: SIGKILL
stop_kill(h) ==
    /\ prog = "playback"
    /\ handlers[h].pc = "s_kill"
    /\ procs' = [procs EXCEPT ![current_process] = "exited"]
    /\ HGoto(h, "s_flag")
    /\ UNCHANGED <<prog, listener, svc, current_process, is_playing, players>>

\* line 39; stop_music answers, play_directory goes on
stop_flag(h) ==
    /\ prog = "playback"
    /\ handlers[h].pc = "s_flag"
    /\ is_playing' = FALSE
    /\ HGoto(h, IF handlers[h].route = "play" THEN "glob" ELSE "done")
    /\ UNCHANGED <<prog, listener, svc, current_process, procs, players>>

\* lines 48-53: the directory holds MP3 files, or play_directory returns False
play_glob(h) ==
    /\ prog = "playback"
    /\ handlers[h].pc = "glob"
    /\ \E found \in BOOLEAN : HGoto(h, IF found THEN "spawn" ELSE "done")
    /\ UNCHANGED <<prog, listener, svc, current_process, is_playing, procs, players>>

\* lines 81-84: the run_mpv thread is started and play_directory returns True
play_spawn(h) ==
    /\ prog = "playback"
    /\ handlers[h].pc = "spawn"
    /\ players' = Append(players, [pc |-> "popen", proc |-> 0])
    /\ HGoto(h, "done")
    /\ UNCHANGED <<prog, listener, svc, current_process, is_playing, procs>>

\* lines 69-73, the call: mpv is started, or Popen raises
run_mpv_popen(k) ==
    /\ prog = "playback"
    /\ players[k].pc = "popen"
    /\ \E ok \in BOOLEAN :
         IF ok
         THEN /\ procs' = Append(procs, "running")
              /\ players' = [players EXCEPT ![k].pc = "store", ![k].proc = Len(procs) + 1]
         ELSE /\ PGoto(k, "failed")
              /\ UNCHANGED procs
    /\ UNCHANGED <<prog, listener, svc, current_process, is_playing, handlers>>

\* line 69, the assignment to self.current_process
run_mpv_store(k) ==
    /\ prog = "playback"
    /\ players[k].pc = "store"
    /\ current_process' = players[k].proc
    /\ PGoto(k, "flag")
    /\ UNCHANGED <<prog, listener, svc, is_playing, procs, handlers>>

\* line 74
run_mpv_flag(k) ==
    /\ prog = "playback"
    /\ players[k].pc = "flag"
    /\ is_playing' = TRUE
    /\ PGoto(k, "bind")
    /\ UNCHANGED <<prog, listener, svc, current_process, procs, handlers>>

\* line 75, self.current_process is read again: the process waited for
run_mpv_bind(k) ==
    /\ prog = "playback"
    /\ players[k].pc = "bind"
    /\ players' = [players EXCEPT ![k].pc = "wait", ![k].proc = current_process]
    /\ UNCHANGED <<prog, listener, svc, current_process, is_playing, procs, handlers>>

\* lines 75-76: wait() returns when that process has ended
run_mpv_wait(k) ==
    /\ prog = "playback"
    /\ players[k].pc = "wait"
    /\ ~ Alive(players[k].proc)
    /\ is_playing' = FALSE
    /\ PGoto(k, "done")
    /\ UNCHANGED <<prog, listener, svc, current_process, procs, handlers>>

\* lines 77-79
run_mpv_failed(k) ==
    /\ prog = "playback"
    /\ players[k].pc = "failed"
    /\ is_playing' = FALSE
    /\ PGoto(k, "done")
    /\ UNCHANGED <<prog, listener, svc, current_process, procs, handlers>>

\* mpv ends on SIGTERM
mpv_exits(p) ==
    /\ prog = "playback"
    /\ procs[p] = "terminating"
    /\ procs' = [procs EXCEPT ![p] = "exited"]
    /\ UNCHANGED <<prog, listener, svc, current_process, is_playing, handlers, players>>

NextPlay ==
    \/ play_music
    \/ stop_music
    \/ \E h \in DOMAIN handlers : stop_check(h)
    \/ \E h \in DOMAIN handlers : stop_terminate(h)
    \/ \E h \in DOMAIN handlers : stop_wait(h)
    \/ \E h \in DOMAIN handlers : stop_kill(h)
    \/ \E h \in DOMAIN handlers : stop_flag(h)
    \/ \E h \in DOMAIN handlers : play_glob(h)
    \/ \E h \in DOMAIN handlers : play_spawn(h)
    \/ \E k \in DOMAIN players : run_mpv_popen(k)
    \/ \E k \in DOMAIN players : run_mpv_store(k)
    \/ \E k \in DOMAIN players : run_mpv_flag(k)
    \/ \E k \in DOMAIN players : run_mpv_bind(k)
    \/ \E k \in DOMAIN players : run_mpv_wait(k)
    \/ \E k \in DOMAIN players : run_mpv_failed(k)
    \/ \E p \in DOMAIN procs : mpv_exits(p)

SpecPlay == InitPlay /\ [][NextPlay]_vars

\* ================================================================== app.py
\* the cards and the music directories of the requests
RFIDs == {"r1", "r2"}
Dirs == {"d1", "d2"}

\* a row of rfid_map: the key, music_dir, and album_title of the other columns
Row(rfid, music_dir, album_title) ==
    [rfid |-> rfid, music_dir |-> music_dir, album_title |-> album_title]

\* DatabaseManager.get_mapping: the rows SELECT ... WHERE rfid = ? finds
get_mapping(table, rfid) == { x \in table : x.rfid = rfid }

\* create_mapping as INSERT OR REPLACE: the row of the same key is replaced
create_mapping_or_replace(table, rfid, music_dir, album_title) ==
    [ok |-> TRUE,
     table |-> (table \ get_mapping(table, rfid)) \cup {Row(rfid, music_dir, album_title)}]

\* DatabaseManager.create_mapping on the table of init_database: rfid is the
\* PRIMARY KEY, so the INSERT raises IntegrityError when the key is there
create_mapping(table, rfid, music_dir, album_title) ==
    IF get_mapping(table, rfid) # {}
    THEN [ok |-> FALSE, table |-> table]
    ELSE [ok |-> TRUE, table |-> table \cup {Row(rfid, music_dir, album_title)}]

\* DatabaseManager.delete_mapping
delete_mapping(table, rfid) == table \ get_mapping(table, rfid)

\* DatabaseManager.update_mapping(rfid, album_title=..., artist=...): music_dir
\* is None and stays out of the UPDATE
update_mapping(table, rfid, album_title) ==
    { IF x.rfid = rfid THEN [x EXCEPT !.album_title = album_title] ELSE x : x \in table }

\* db = DatabaseManager(DATABASE_PATH): the table is new, or holds a mapping
\* made in an earlier run
InitApp ==
    /\ prog = "app"
    /\ NoListener
    /\ NoHost
    /\ rfid_map \in { {}, {Row("r1", "d1", "")} }
    /\ reqs = <<>>

\* a thread of the server in a handler: its route, its arguments, its position
\* and how it ended
Request(route, rfid, music_dir, pc) ==
    [route |-> route, rfid |-> rfid, music_dir |-> music_dir, pc |-> pc,
     result |-> "none"]

RGoto(q, p, res) == reqs' = [reqs EXCEPT ![q].pc = p, ![q].result = res]

\* lines 235-243: POST /assign; without rfid or music_dir the form is refused
assign ==
    /\ prog = "app"
    /\ Len(reqs) < MaxRequests
    /\ \E r \in RFIDs \cup {""}, d \in Dirs \cup {""} :
         reqs' = Append(reqs, Request("assign", r, d,
                                      IF r = "" \/ d = "" THEN "done" ELSE "a_check"))
    /\ UNCHANGED <<prog, listener, host, rfid_map>>

\* lines 247-250
assign_check(q) ==
    /\ prog = "app"
    /\ reqs[q].pc = "a_check"
    /\ IF get_mapping(rfid_map, reqs[q].rfid) # {}
       THEN RGoto(q, "done", "exists")
       ELSE RGoto(q, "a_insert", "none")
    /\ UNCHANGED <<prog, listener, host, rfid_map>>

\* lines 253-260: the INSERT; IntegrityError, or another sqlite3 error before
\* anything is written, ends in the except clause
assign_insert(q) ==
    /\ prog = "app"
    /\ reqs[q].pc = "a_insert"
    /\ \/ LET res == create_mapping(rfid_map, reqs[q].rfid, reqs[q].music_dir, "") IN
            /\ rfid_map' = res.table
            /\ RGoto(q, "done", IF res.ok THEN "created" ELSE "integrity")
       \/ /\ UNCHANGED rfid_map
          /\ RGoto(q, "done", "error")
    /\ UNCHANGED <<prog, listener, host>>

\* lines 286-290: POST /unassign/<rfid>
unassign ==
    /\ prog = "app"
    /\ Len(reqs) < MaxRequests
    /\ \E r \in RFIDs : reqs' = Append(reqs, Request("unassign", r, "", "u_check"))
    /\ UNCHANGED <<prog, listener, host, rfid_map>>

\* lines 290-295
unassign_check(q) ==
    /\ prog = "app"
    /\ reqs[q].pc = "u_check"
    /\ IF get_mapping(rfid_map, reqs[q].rfid) # {}
       THEN RGoto(q, "u_delete", "none")
       ELSE RGoto(q, "done", "notfound")
    /\ UNCHANGED <<prog, listener, host, rfid_map>>

\* lines 292-293
unassign_delete(q) ==
    /\ prog = "app"
    /\ reqs[q].pc = "u_delete"
    /\ rfid_map' = delete_mapping(rfid_map, reqs[q].rfid)
    /\ RGoto(q, "done", "deleted")
    /\ UNCHANGED <<prog, listener, host>>

\* lines 262-268: POST /edit/<rfid>
edit ==
    /\ prog = "app"
    /\ Len(reqs) < MaxRequests
    /\ \E r \in RFIDs : reqs' = Append(reqs, Request("edit", r, "", "e_check"))
    /\ UNCHANGED <<prog, listener, host, rfid_map>>

\* lines 265-268
edit_check(q) ==
    /\ prog = "app"
    /\ reqs[q].pc = "e_check"
    /\ IF get_mapping(rfid_map, reqs[q].rfid) # {}
       THEN RGoto(q, "e_update", "none")
       ELSE RGoto(q, "done", "notfound")
    /\ UNCHANGED <<prog, listener, host, rfid_map>>

\* lines 273-280
edit_update(q) ==
    /\ prog = "app"
    /\ reqs[q].pc = "e_update"
    /\ rfid_map' = update_mapping(rfid_map, reqs[q].rfid, "title")
    /\ RGoto(q, "done", "updated")
    /\ UNCHANGED <<prog, listener, host>>

NextApp ==
    \/ assign
    \/ unassign
    \/ edit
    \/ \E q \in DOMAIN reqs : assign_check(q)
    \/ \E q \in DOMAIN reqs : assign_insert(q)
    \/ \E q \in DOMAIN reqs : unassign_check(q)
    \/ \E q \in DOMAIN reqs : unassign_delete(q)
    \/ \E q \in DOMAIN reqs : edit_check(q)
    \/ \E q \in DOMAIN reqs : edit_update(q)

SpecApp == InitApp /\ [][NextApp]_vars

\* ============================ either listener, or one of the two harnesses
Init == InitBasic \/ InitEnh \/ InitValid \/ InitEquiv

Next == NextBasic \/ NextEnh \/ NextValid \/ NextEquiv

Spec == Init /\ [][Next]_vars

\* ===================================================================== claims
\* the shape rule as stated: length in [6,20], and alphanumeric once the spaces
\* are removed
ShapeOK(s) ==
    /\ Len(s) >= 6
    /\ Len(s) <= 20
    /\ \A i \in 1..Len(s) : s[i] = " " \/ s[i] \in AlNum

Validating == prog \in {"validate", "validate_enhanced"}

C2_NoTwoAcceptedWithinWindow ==
    \A i, j \in DOMAIN accepted :
        i < j => \/ accepted[j].t - accepted[i].t >= DEDUP_WINDOW
                 \/ accepted[i].t - accepted[j].t >= DEDUP_WINDOW

\* every thread and every Timer is at rest and nothing is left to flush
Quiet ==
    /\ \A t \in DOMAIN th : th[t].pc \in {"read", "cancelled", "done"}
    /\ src = <<>>

CallsOfCycle(c) == { i \in DOMAIN calls : calls[i].cycle = c }

\* C3: every accumulation cycle hands exactly one candidate to process_scan:
\* never more than one, and not zero once the cycle has ended.
C3_OneCandidatePerCycle ==
    prog = "basic" =>
      /\ \A c \in 1..cycle : Cardinality(CallsOfCycle(c)) <= 1
      /\ Quiet /\ scan_buffer = <<>> => \A c \in 1..cycle : CallsOfCycle(c) # {}

\* C4: the timer callback empties a buffer only SCAN_TIMEOUT or more after the
\* arrival of its last character, never earlier, and once handle_input_char has
\* returned the Timer in scan_timer is due at the arrival of the last character
\* plus SCAN_TIMEOUT.
C4_FlushAtDeadlineNotEarlier ==
    prog = "basic" =>
      /\ \A i \in Timers :
           th[i].pc = "f_clear" /\ scan_buffer # <<>>
              => now >= lastChar + SCAN_TIMEOUT
      /\ th[MAIN].pc = "read" /\ scan_timer # NoTimer /\ th[scan_timer].pc = "pending"
              => th[scan_timer].deadline = lastChar + SCAN_TIMEOUT

Selected == prog = "enhanced" /\ th[MAIN].pc \notin {"main", "main_sleep", "start"}

\* C5: with no descriptor the strategy is StdinRead; with a descriptor and a
\* probe that did not succeed (empty read, timeout, permission error, other
\* error) it is StdinRead; read_rfid_from_device runs only after a probe
\* that succeeded.
C5_FallbackToStdin ==
    prog = "enhanced" =>
      /\ Selected /\ device_path = None => strategy = "stdin"
      /\ probe \in {"empty", "timeout", "permission", "error"} => strategy = "stdin"
      /\ strategy = "device" \/ th[MAIN].pc = "device"
            => probe = "data" /\ device_path # None

C5_Witness ==
    /\ prog = "enhanced"
    /\ device_path # None
    /\ probe = "empty"
    /\ strategy = "stdin"
    /\ posts # <<>>

\* C6: with no matching signature in the registry and no by-id directory the
\* strategy is StdinRead and test_device_input is never called; it is called
\* only after the locator returned a descriptor.
C6_NoProbeWithoutDescriptor ==
    prog = "enhanced" =>
      /\ Selected /\ registry = "nomatch" /\ by_id = "absent"
            => strategy = "stdin" /\ probe = "notrun"
      /\ probe # "notrun" \/ th[MAIN].pc = "probe" => device_path # None

C6_Witness ==
    /\ prog = "enhanced"
    /\ registry = "nomatch"
    /\ by_id = "absent"
    /\ strategy = "stdin"
    /\ probe = "notrun"
    /\ posts # <<>>

IsPrefix(a, b) == Len(a) <= Len(b) /\ SubSeq(b, 1, Len(a)) = a

\* C7: key presses for "1".."6" then Enter, read from the device: one candidate
\* "123456", accepted, and exactly one POST, with rfid "123456"; nothing is sent
\* before Enter.
C7_ScenarioA ==
    prog = "enhanced" /\ strategy = "device" =>
      /\ IsPrefix(DevScanA, fed) =>
            /\ calls # <<>> /\ calls[1].data = Str6
            /\ accepted # <<>> /\ accepted[1].rfid = Str6
            /\ posts # <<>> /\ posts[1].rfid = Str6 /\ posts[1].acc = 1
      /\ fed = DevScanA => Len(calls) = 1 /\ Len(accepted) = 1 /\ Len(posts) = 1
      /\ IsPrefix(fed, DevScanC) => calls = <<>> /\ posts = <<>>

C7_Witness ==
    /\ prog = "enhanced"
    /\ strategy = "device"
    /\ fed = DevScanA
    /\ Len(posts) = 1
    /\ posts[1].rfid = Str6 /\ posts[1].acc = 1 /\ posts[1].ok

StdinScanC == <<"A", "1", "B", "2", "C", "3", "\n">>

\* C8: fed the same characters and terminators, read_rfid_from_stdin and
\* read_rfid_from_device hold the same buffer, hand the same candidates to
\* process_scan, accept the same identifiers and send the same requests; and
\* "A1B2C3" then newline on stdin is one candidate, accepted and sent once.
C8_SameDownstream ==
    /\ prog = "equiv" =>
          /\ dev.scan_buffer = scan_buffer
          /\ dev.calls = calls
          /\ dev.accepted = accepted
          /\ dev.last_scan_time = last_scan_time
          /\ dev.posts = posts
    /\ prog = "enhanced" /\ strategy = "stdin" /\ IsPrefix(StdinScanC, fed) =>
          /\ calls # <<>> /\ calls[1].data = SubSeq(StdinScanC, 1, 6)
          /\ accepted # <<>> /\ accepted[1].rfid = SubSeq(StdinScanC, 1, 6)
          /\ posts # <<>> /\ posts[1].rfid = SubSeq(StdinScanC, 1, 6)
          /\ fed = StdinScanC => Len(posts) = 1

C8_Witness ==
    /\ prog = "equiv"
    /\ Len(calls) = 2
    /\ calls[1].data = <<"a", "b">>
    /\ posts # <<>>
    /\ dev.posts = posts

\* C9: a candidate that fails the shape rules goes no further: whatever is
\* accepted or sent has the shape, a thread past the checks holds a shaped
\* identifier, and last_scan_time is only ever the time of an acceptance.
C9_RejectedCandidateChangesNothing ==
    /\ \A i \in DOMAIN accepted : ShapeOK(accepted[i].rfid)
    /\ \A i \in DOMAIN posts : ShapeOK(posts[i].rfid)
    /\ \A t \in DOMAIN th :
         th[t].pc \in {"ps_accept", "ps_post"} => ShapeOK(strip(th[t].arg))
    /\ last_scan_time = 0 \/ \E i \in DOMAIN accepted : accepted[i].t = last_scan_time

C9_Witness ==
    /\ Len(calls) = 2
    /\ calls[1].data = <<"a", "b">>
    /\ calls[2].data = Str6
    /\ Len(accepted) = 1
    /\ accepted[1].t = last_scan_time
    /\ Len(posts) = 1

\* C10: each acceptance leads to at most one POST, of the accepted identifier;
\* after a failed POST nothing is sent again for it.
C10_AtMostOnePostPerAcceptance ==
    /\ Len(posts) <= Len(accepted)
    /\ \A i \in DOMAIN posts :
         /\ posts[i].acc \in DOMAIN accepted
         /\ accepted[posts[i].acc].rfid = posts[i].rfid
    /\ \A i, j \in DOMAIN posts : posts[i].acc = posts[j].acc => i = j

C10_Witness ==
    /\ Len(posts) = 2
    /\ ~ posts[1].ok
    /\ posts[2].ok
    /\ Len(accepted) = 2
    /\ \A t \in DOMAIN th : th[t].pc \notin {"ps_check", "ps_accept", "ps_post"}

Waiting4Flask == th[MAIN].pc \in {"main", "main_sleep"}

\* C11: the listener is constructed and reads input only after a GET /health
\* that returned status 200; until then nothing is read, buffered or sent, and
\* after a check that failed main sleeps and checks again, with no count of the
\* attempts.
C11_ReadLoopOnlyAfterHealthy ==
    prog \in {"basic", "enhanced"} =>
      /\ ~ Waiting4Flask => health = "200"
      /\ health # "200" =>
            /\ Waiting4Flask
            /\ ~ running
            /\ calls = <<>> /\ accepted = <<>> /\ posts = <<>>
            /\ fed = <<>> /\ src = <<>> /\ scan_buffer = <<>> /\ cycle = 0
            /\ device_path = None /\ strategy = "none"
      /\ th[MAIN].pc = "main_sleep" => health \in {"non200", "error"}

C11_Witness ==
    /\ prog = "basic"
    /\ health = "200"
    /\ running
    /\ posts # <<>>

PendingFlushes == { i \in Timers : th[i].pc = "pending" }

\* C12: at most one Timer is started and neither cancelled nor run, and
\* scan_timer refers to it, also while the callback of an earlier Timer runs.
C12_AtMostOnePendingFlush ==
    prog = "basic" =>
      /\ Cardinality(PendingFlushes) <= 1
      /\ \A i \in PendingFlushes : scan_timer = i

\* the statements of the read loop that read or write last_scan_time,
\* scan_buffer or scan_timer: handle_input_char and the process_scan it calls
ReadLoopInside ==
    \/ th[MAIN].pc \in {"h_load", "h_store", "h_check", "h_cancel", "h_new", "h_start",
                        "h_term", "h_term_cancel", "h_term_none", "h_term_buf",
                        "h_term_call", "h_term_clear"}
    \/ th[MAIN].pc \in {"ps_check", "ps_accept"}

\* the same for the callback of Timer i: flush_scan_buffer and its process_scan
CallbackInside(i) ==
    th[i].pc \in {"f_check", "f_call", "f_clear", "f_none", "ps_check", "ps_accept"}

\* C13: the read loop and a Timer's callback are never both in the middle of
\* the statements that use last_scan_time, scan_buffer and scan_timer.
C13_SharedStateOneAtATime ==
    prog = "basic" => ~ (ReadLoopInside /\ \E i \in Timers : CallbackInside(i))

InProcessScan == { t \in DOMAIN th : th[t].pc \in {"ps_check", "ps_accept", "ps_post"} }

\* C14: at most one process_scan call is in flight at any time, and the requests
\* are sent in the order in which the candidates were handed to process_scan.
C14_OneScanInFlightInOrder ==
    prog = "basic" =>
      /\ Cardinality(InProcessScan) <= 1
      /\ \A i, j \in DOMAIN posts : i < j => posts[i].acc < posts[j].acc

\* C15: once stop_listening has returned, no candidate is handed to
\* process_scan, none is accepted and no request is sent, and the read loop
\* reads nothing more.
C15_NothingAfterStop ==
    [][ (prog = "basic" /\ th[MAIN].pc = "stopped")
          => /\ calls' = calls
             /\ accepted' = accepted
             /\ posts' = posts
             /\ src' = src /\ tape' = tape ]_vars

\* C16: once stdin is at end of file the read loop ends and the listener
\* reaches the stopped state.
C16_EofStopsTheLoop ==
    (prog = "basic" /\ eof) ~> (th[MAIN].pc = "stopped")

InReadLoop == prog = "enhanced" /\ th[MAIN].pc \in {"stdin", "device"}

C18_IdleBufferEventuallyFlushed ==
    (prog = "enhanced" /\ scan_buffer # <<>> /\ src = <<>> /\ tape = <<>>)
        ~> (scan_buffer = <<>>)

\* the candidate of the process_scan call a step has just added
NewCall == strip(calls'[Len(calls')].data)

\* C19: a candidate of valid shape handed over less than DEDUP_WINDOW after the
\* last acceptance is dropped and last_scan_time, accepted and posts stay as
\* they are; handed over DEDUP_WINDOW or more after it, it is accepted and
\* last_scan_time becomes the time of the call.  In the basic listener the
\* checks of process_scan never write last_scan_time and let a valid candidate
\* pass exactly when the window is over.
C19_DuplicateLeavesDedupState ==
    /\ [][ (InReadLoop /\ Len(calls') = Len(calls) + 1
              /\ enhanced_is_valid_rfid(NewCall))
           => IF now - last_scan_time < DEDUP_WINDOW
              THEN /\ last_scan_time' = last_scan_time
                   /\ accepted' = accepted
                   /\ posts' = posts
              ELSE /\ last_scan_time' = now
                   /\ accepted' = Append(accepted, [rfid |-> NewCall, t |-> now]) ]_vars
    /\ [][ prog = "basic" =>
             \A t \in DOMAIN th :
               (th[t].pc = "ps_check" /\ th'[t].pc # "ps_check")
                 => /\ last_scan_time' = last_scan_time
                    /\ th'[t].pc = "ps_accept"
                         <=> /\ is_valid_rfid(strip(th[t].arg))
                             /\ now - last_scan_time >= DEDUP_WINDOW ]_vars

C19_Witness ==
    /\ prog = "enhanced"
    /\ src = <<>> /\ tape = <<>>
    /\ Len(calls) = 2
    /\ calls[1].data = Str6 /\ calls[2].data = Str6
    /\ accepted = <<[rfid |-> Str6, t |-> last_scan_time]>>
    /\ Len(posts) = 1
    /\ now = last_scan_time + 1

\* the key codes of the keymap, Enter among them
KeymapCodes == (2..11) \cup (16..25) \cup (30..38) \cup (44..50) \cup {28}

\* the record a step of the device loop has just read
NewRecord == fed'[Len(fed')]

YieldsToken(ev) ==
    /\ ev.size = EVENT_SIZE
    /\ ev.type = 1
    /\ ev.value = 1
    /\ ev.code \in KeymapCodes

\* C20: in the device loop a record that is not a key press of a key of the
\* keymap (a release, a repeat, another event class, an unmapped code, a short
\* read) changes neither the buffer nor DedupState, hands nothing to
\* process_scan and keeps the loop running; a key press of a keymap key other
\* than Enter adds one character to the buffer and nothing else.
C20_OnlyMappedKeyPressesCount ==
    [][ (prog = "enhanced" /\ th[MAIN].pc = "device" /\ Len(fed') = Len(fed) + 1)
        => /\ ~ YieldsToken(NewRecord)
                => /\ scan_buffer' = scan_buffer
                   /\ last_scan_time' = last_scan_time
                   /\ calls' = calls
                   /\ accepted' = accepted
                   /\ posts' = posts
           /\ YieldsToken(NewRecord) /\ NewRecord.code # 28
                => /\ Len(scan_buffer') = Len(scan_buffer) + 1
                   /\ SubSeq(scan_buffer', 1, Len(scan_buffer)) = scan_buffer
                   /\ calls' = calls
                   /\ last_scan_time' = last_scan_time
           /\ th'[MAIN].pc = "device"
           /\ running' ]_vars

C20_Witness ==
    /\ prog = "enhanced"
    /\ strategy = "device"
    /\ fed = DevScanB
    /\ calls = <<[data |-> <<"a", "b">>, cycle |-> 0]>>
    /\ scan_buffer = <<>>
    /\ last_scan_time = 0

\* a step of the device loop that has just read one more record
DeviceRead == prog = "enhanced" /\ th[MAIN].pc = "device" /\ Len(fed') = Len(fed) + 1

\* C21: a device read shorter than the record size is dropped: the buffer,
\* DedupState and the histories stay as they are and the loop goes on; the
\* full-size read after it is decoded from its own bytes alone: a press of a
\* keymap key adds that key's character, a press of Enter hands the buffer over.
C21_ShortReadDiscarded ==
    [][ DeviceRead =>
          /\ NewRecord.size # EVENT_SIZE
               => /\ scan_buffer' = scan_buffer
                  /\ last_scan_time' = last_scan_time
                  /\ calls' = calls
                  /\ accepted' = accepted
                  /\ posts' = posts
                  /\ th'[MAIN].pc = "device"
                  /\ running'
          /\ (fed # <<>> /\ fed[Len(fed)].size # EVENT_SIZE /\ YieldsToken(NewRecord))
               => IF NewRecord.code = KEY_ENTER
                  THEN /\ scan_buffer' = <<>>
                       /\ scan_buffer # <<>>
                            => calls' = Append(calls, [data |-> scan_buffer, cycle |-> 0])
                  ELSE scan_buffer' = Append(scan_buffer, keycode_to_char(NewRecord.code)) ]_vars

C21_Witness ==
    /\ prog = "enhanced"
    /\ strategy = "device"
    /\ Len(fed) = 6
    /\ fed[5] = ShortRead
    /\ fed[6] = Press(48)
    /\ scan_buffer = <<"a", "b">>
    /\ running

\* a step of the read loop that takes a terminator while the assembler is idle
\* (nothing buffered, no Timer in scan_timer) and comes back to the read
IdleTerminator ==
    /\ th[MAIN].pc \in {"h_term", "h_term_buf"}
    /\ scan_buffer = <<>>
    /\ scan_timer = NoTimer
    /\ \A i \in Timers : th[i].pc \in {"cancelled", "done"}

Terminators == {"\n", "\r"}

\* the characters read so far that are not terminators, in arrival order
Chars(f) == SelectSeq(f, LAMBDA c : c \notin Terminators)

\* the candidates handed to process_scan so far, one after the other
RECURSIVE Flat(_)
Flat(cs) == IF cs = <<>> THEN <<>> ELSE Head(cs).data \o Flat(Tail(cs))

\* the read loop of the enhanced listener has just read a terminator
ReadTerminator ==
    /\ InReadLoop
    /\ Len(fed') = Len(fed) + 1
    /\ IF strategy = "stdin" THEN NewRecord \in Terminators
       ELSE YieldsToken(NewRecord) /\ NewRecord.code = KEY_ENTER

C24_StrategySelectedOnce ==
    /\ [](prog = "enhanced" /\ strategy = "device"
            => th[MAIN].pc \in {"device_open", "device", "returned"})
    /\ [][ prog = "enhanced" =>
             /\ th'[MAIN].pc = "start" => th[MAIN].pc \in {"main", "start"}
             /\ th'[MAIN].pc = "probe" => th[MAIN].pc \in {"start", "probe"}
             /\ device_path' # device_path => th[MAIN].pc = "start"
             /\ probe' # probe => probe = "notrun" /\ th[MAIN].pc = "probe"
             /\ strategy' # strategy => strategy = "none"
             /\ (strategy = "device" /\ fed' # fed)
                   => th[MAIN].pc = "device" /\ th'[MAIN].pc = "device" ]_vars

C24_Witness ==
    /\ prog = "enhanced"
    /\ strategy = "device"
    /\ probe = "data"
    /\ th[MAIN].pc = "returned"
    /\ fed = <<>>
    /\ calls = <<>>

\* the signatures of the registry and of the by-id directory, as the host has them
RegistryHit == registry = "match"
ByIdHit == by_id = "match"

\* C25: the locator goes through its layers in order and returns at most one
\* descriptor: the registry's device when the registry matches, whatever by-id
\* holds; the by-id device when the registry gave nothing (unreadable, no
\* match, no handler, no device path) and by-id matches; otherwise none.  The
\* by-id layer is reached only when the registry layer gave nothing, the
\* enumeration only when both gave nothing, and the enumeration selects nothing.
C25_LayeredLocator ==
    prog = "enhanced" /\ Selected =>
      /\ RegistryHit => device_path = "/dev/input/event3" /\ layers = <<"registry">>
      /\ ~ RegistryHit /\ ByIdHit
            => device_path = "/dev/input/event5" /\ layers = <<"registry", "by_id">>
      /\ ~ RegistryHit /\ ~ ByIdHit
            => device_path = None /\ layers = <<"registry", "by_id", "enumeration">>
      /\ device_path # None <=> RegistryHit \/ ByIdHit
      /\ \A i \in DOMAIN layers : layers[i] = "enumeration" => device_path = None

C25_Witness ==
    /\ prog = "enhanced"
    /\ registry = "match"
    /\ by_id = "match"
    /\ device_path = "/dev/input/event3"
    /\ layers = <<"registry">>
    /\ th[MAIN].pc = "device"

\* C26: once the basic listener is at rest with nothing buffered, the candidates
\* handed to process_scan, one after the other, are exactly the non-terminator
\* characters read, each once and in arrival order.
C26_NoCharLostOrDuplicated ==
    (prog = "basic" /\ Quiet /\ scan_buffer = <<>>) => Flat(calls) = Chars(fed)

\* the last POST failed
LastPostFailed == posts # <<>> /\ ~ posts[Len(posts)].ok

\* the acceptance the last POST was made for
LastPosted == accepted[posts[Len(posts)].acc]

\* no Timer's callback has run or is running
NoCallback == \A i \in Timers : th[i].pc \in {"created", "pending", "cancelled"}

\* C27 as stated: a candidate of valid shape handed to process_scan less than
\* 1.0 second after a POST failed is rejected: not accepted and not sent (in the
\* basic listener, already with the read loop alone, no callback ever run).
C27_RescanAfterFailedPostRejected ==
    /\ [][ prog = "basic" /\ NoCallback =>
             \A t \in DOMAIN th :
               ( /\ th[t].pc = "ps_check" /\ th'[t].pc # "ps_check"
                 /\ is_valid_rfid(strip(th[t].arg))
                 /\ LastPostFailed
                 /\ now - posts[Len(posts)].t < DEDUP_WINDOW )
               => th'[t].pc # "ps_accept" ]_vars
    /\ [][ ( /\ InReadLoop /\ Len(calls') = Len(calls) + 1
             /\ enhanced_is_valid_rfid(NewCall)
             /\ LastPostFailed
             /\ now - posts[Len(posts)].t < DEDUP_WINDOW )
           => accepted' = accepted /\ posts' = posts ]_vars

\* C27 amended: last_scan_time is set at acceptance and a POST, failed or not,
\* leaves it alone, so it is never earlier than the acceptance the POST was made
\* for; a candidate of valid shape handed to process_scan less than 1.0 second
\* after the acceptance whose POST failed is rejected: not accepted, not sent,
\* last_scan_time unchanged.
C27_RescanAfterFailedAcceptanceRejected ==
    /\ [][ (prog \in {"basic", "validate"} /\ Len(posts') = Len(posts) + 1)
             => /\ last_scan_time' = last_scan_time
                /\ last_scan_time >= accepted[posts'[Len(posts')].acc].t ]_vars
    /\ [][ prog = "basic" =>
             \A t \in DOMAIN th :
               ( /\ th[t].pc = "ps_check" /\ th'[t].pc # "ps_check"
                 /\ LastPostFailed
                 /\ now - LastPosted.t < DEDUP_WINDOW )
               => /\ th'[t].pc # "ps_accept"
                  /\ last_scan_time' = last_scan_time ]_vars
    /\ [][ (InReadLoop /\ Len(posts') = Len(posts) + 1)
             => /\ last_scan_time' = now
                /\ accepted'[posts'[Len(posts')].acc].t = now ]_vars
    /\ [][ ( /\ InReadLoop /\ Len(calls') = Len(calls) + 1
             /\ LastPostFailed
             /\ now - LastPosted.t < DEDUP_WINDOW )
           => /\ accepted' = accepted
              /\ posts' = posts
              /\ last_scan_time' = last_scan_time ]_vars

C27_Witness ==
    /\ prog = "enhanced"
    /\ Len(calls) = 2
    /\ calls[1].data = Str6 /\ calls[2].data = Str6
    /\ Len(accepted) = 1
    /\ Len(posts) = 1
    /\ ~ posts[1].ok
    /\ last_scan_time = accepted[1].t
    /\ now - last_scan_time < DEDUP_WINDOW

\* the mpv processes that have not ended
AliveProcs == { p \in DOMAIN procs : Alive(p) }

\* C28: on the playback host at most one mpv process is alive at any time.
C28_AtMostOneMpv ==
    prog = "playback" => Cardinality(AliveProcs) <= 1

\* C29: in the mapping service no two rows of rfid_map have the same RFID, and
\* no step changes the music_dir of an RFID that has a row: an assignment for a
\* mapped RFID is refused by the check or by the primary key, whatever other
\* assign, unassign and edit requests run beside it.
C29_MappingNeverOverwritten ==
    /\ [](prog = "app" => \A x, y \in rfid_map : x.rfid = y.rfid => x = y)
    /\ [][ prog = "app" =>
             \A x \in rfid_map : \A y \in rfid_map' :
                y.rfid = x.rfid => y.music_dir = x.music_dir ]_vars

C29_Witness ==
    /\ prog = "app"
    /\ \E q, o \in DOMAIN reqs :
         /\ reqs[q].route = "assign"
         /\ reqs[q].result = "integrity"
         /\ reqs[q].music_dir = "d2"
         /\ reqs[o].result = "created"
         /\ reqs[o].rfid = reqs[q].rfid
         /\ reqs[o].music_dir = "d1"
         /\ Row(reqs[q].rfid, "d1", "") \in rfid_map

====
